---- MODULE Spec2Model ----
(***************************************************************************)
(* The QFD (fast value-change logging) API of qfd.h / qfd_expr.h as a      *)
(* state machine: the session protocol (qfd_init, qfd_start, qfd_finalize, *)
(* qfd_cleanup), the fast-callback registry (qfd_setCbAndGetValPtr,        *)
(* qfd_removeCb, user data), the map expressions of secondaries            *)
(* (qfd_getMapExpr) and the simulator's value-change dispatch.             *)
(*                                                                         *)
(* The headers declare the functions and document their contract; the      *)
(* bodies live in the simulator.  Behaviour the headers state is modelled  *)
(* from the headers; behaviour only spec.md states is kept in separate     *)
(* definitions (the ...Legal guards, the memo and the fingerprint table).  *)
(***************************************************************************)
EXTENDS Integers, Sequences, FiniteSets, Bags, TLC

VARIABLES
    state,          \* position in the session protocol
    featurePresent, \* the simulator's answer to "is QFD available"
    subst,          \* the design under test: the substitution records of a1, a2
    hooks,          \* per handle: the bag of armed fast callbacks [cb, ud]
    userData,       \* the qfdHandle -> userData mapping
    mapCache,       \* per handle: the map expression already returned
    canon,          \* fingerprint table: [fp, h], h the first secondary with fp
    builds,         \* per handle: how many map expressions were constructed
    last,           \* the last call: [op, h, arg, ret]
    starts,         \* history: the sessions opened so far, up to MaxStarts
    got,            \* history: per handle, what its first qfd_getMapExpr returned
    order           \* history: the handles in the order of their first qfd_getMapExpr

vars_but_last == <<state, featurePresent, subst, hooks, userData, mapCache,
                   canon, builds, starts, got, order>>

vars == <<state, featurePresent, subst, hooks, userData, mapCache, canon, builds, last,
          starts, got, order>>

-----------------------------------------------------------------------------
(* Bounds *)

\* the most fast callbacks the model arms on one VHDL object
MaxVhdlCbs == 2

\* the sessions the history counter tells apart
MaxStarts == 2

-----------------------------------------------------------------------------
(* The design: the objects design iteration hands to the client *)

Handles == {"p1", "p2", "p3", "l1", "s1", "s2", "s3", "a1", "a2", "x0"}

UserDatas == {"u1", "u2"}

\* what the client passes to a set-callback call: (funcp, userData)
Clients == {[cb |-> "cb1", ud |-> "u1"], [cb |-> "cb2", ud |-> "u2"]}

NoData == "null"

NoHandle == "-"

NoArg == [cb |-> "-", ud |-> "-"]

\* one call and what it returned
Call(op, h, arg, ret) == [op |-> op, h |-> h, arg |-> arg, ret |-> ret]

\* TQfdValType of each object, fixed by the optimizer before iteration
ObjValType(h) ==
    CASE h \in {"p1", "p2", "p3"} -> "QFD_VAL_PRIMARY"
      [] h \in {"s1", "s2", "s3", "a1", "a2"} -> "QFD_VAL_SECONDARY"
      [] h = "l1"                 -> "QFD_VAL_LITERAL"
      [] OTHER                    -> "QFD_VAL_NONE"

\* the language of the object: fast-callback limitations exist for Verilog only
ObjLang(h) == IF h = "p2" THEN "VHDL" ELSE "Verilog"

\* FALSE for the types fast callbacks cannot serve on a Verilog object
\* (unpacked arrays, structs, class objects); p2 is a VHDL array of such a type
ObjSupported(h) == h \in {"p1", "l1", "s1"}

\* the objects a fast callback can be set on: the limitation on the type
\* does not exist when the object is VHDL
FastLoggable(h) == ObjLang(h) = "VHDL" \/ ObjSupported(h)

\* TQfdValDescKind of the value location of each object
ObjDescKind(h) ==
    CASE ~FastLoggable(h) -> "QFD_VALKIND_NONE"
      [] h = "p2"         -> "QFD_VALKIND_VHDL"
      [] h = "p1"         -> "QFD_VALKIND_2STATE"
      [] OTHER            -> "QFD_VALKIND_4STATE"

ObjSize(h) ==
    CASE h = "p1" -> 1
      [] h = "p2" -> 8
      [] h = "l1" -> 3
      [] h \in {"s1", "s2"} -> 4
      [] OTHER -> 0

\* the constant a literal holds (3'b101)
ObjLiteral(h) == IF h = "l1" THEN 5 ELSE 0

-----------------------------------------------------------------------------
(* Return values *)

Void == [tag |-> "void"]

Null == [tag |-> "null"]

HardFailure == [tag |-> "failure"]

IntRet(v) == [tag |-> "int", v |-> v]

\* the value location of a primary or a secondary, as qfd_getValDescKind
\* describes it
ValPtr(h) ==
    [tag |-> "ptr", obj |-> h, kind |-> ObjDescKind(h), size |-> ObjSize(h)]

\* the value location of a literal: it holds the constant itself
LitPtr(h) ==
    [tag |-> "ptr", obj |-> h, kind |-> ObjDescKind(h), size |-> ObjSize(h),
     value |-> ObjLiteral(h)]

\* what a set of fast callbacks reports when the object changes value: the
\* callbacks invoked, each with its userData
CallsRet(b) == [tag |-> "calls", calls |-> b]

ValTypeRet(t) == [tag |-> "valtype", v |-> t]

-----------------------------------------------------------------------------
(* The session protocol *)

\* qfd_init() has returned 1 and qfd_cleanup() has not been called
Initialized == state \in {"Available", "SessionOpen"}

\* between qfd_start() and qfd_finalize()
InSession == state = "SessionOpen"

\* qfd_cleanup() has been called: any further QFD call is undefined behaviour
AfterCleanup == state = "CleanedUp"

\* the outcomes of a call that is undefined behaviour: the call is turned
\* down, or it runs as it would have in an open session
UBOutcomes == {"rejected", "performed"}

\* qfd_init() takes effect on its first call only
InitLegal == state = "Uninitialized"

\* qfd_start() opens a session only from Available
StartLegal == state = "Available"

\* qfd_finalize() closes a session only when one is open
FinalizeLegal == state = "SessionOpen"

\* CleanupLegal that lets qfd_cleanup() end an open session too
CleanupLegalInSession == state \in {"Available", "SessionOpen"}

\* qfd_cleanup() takes effect once, and only from Available
CleanupLegal == state = "Available"

TypeOK ==
    /\ state \in {"Uninitialized", "InitFailed", "Available", "SessionOpen",
                  "CleanedUp"}
    /\ featurePresent \in BOOLEAN
    /\ DOMAIN hooks = Handles
    /\ \A h \in Handles : IsABag(hooks[h]) /\ BagToSet(hooks[h]) \subseteq Clients
    /\ userData \in [Handles -> UserDatas \cup {NoData}]
    /\ builds \in [Handles -> Nat]
    /\ starts \in 0..MaxStarts
    /\ order \in Seq(Handles)

\* a1 and a2 as two port formals mapped to the actual p1
DefaultSubst == [h \in {"a1", "a2"} |-> [op |-> "VAR", obj |-> "p1"]]

\* the state before the first QFD call, for one of the designs D
InitOn(D) ==
    /\ state = "Uninitialized"
    /\ featurePresent \in BOOLEAN
    /\ subst \in D
    /\ hooks = [h \in Handles |-> EmptyBag]
    /\ userData = [h \in Handles |-> NoData]
    /\ mapCache = [h \in Handles |-> Null]
    /\ canon = {}
    /\ builds = [h \in Handles |-> 0]
    /\ last = Call("none", NoHandle, NoArg, Void)
    /\ starts = 0
    /\ got = [h \in Handles |-> Null]
    /\ order = << >>

Init == InitOn({DefaultSubst})

\* qfd_init that runs again on a later call
qfd_init_again ==
    /\ state' = IF featurePresent THEN "Available" ELSE "InitFailed"
    /\ last' = Call("init", NoHandle, NoArg,
                     IntRet(IF featurePresent THEN 1 ELSE 0))
    /\ UNCHANGED <<featurePresent, subst, hooks, userData, mapCache, canon, builds,
                   starts, got, order>>

qfd_init ==
    /\ state' = IF InitLegal
                THEN (IF featurePresent THEN "Available" ELSE "InitFailed")
                ELSE state
    /\ last' = Call("init", NoHandle, NoArg,
                     IF InitLegal
                     THEN IntRet(IF featurePresent THEN 1 ELSE 0)
                     ELSE HardFailure)
    /\ UNCHANGED <<featurePresent, subst, hooks, userData, mapCache, canon, builds,
                   starts, got, order>>

qfd_start ==
    /\ state' = IF StartLegal THEN "SessionOpen" ELSE state
    /\ starts' = IF StartLegal /\ starts < MaxStarts THEN starts + 1 ELSE starts
    /\ last' = Call("start", NoHandle, NoArg, Void)
    /\ UNCHANGED <<featurePresent, subst, hooks, userData, mapCache, canon, builds,
                   got, order>>

\* qfd_finalize that leaves the session open
qfd_finalize_open ==
    /\ last' = Call("finalize", NoHandle, NoArg, Void)
    /\ UNCHANGED <<state, featurePresent, subst, hooks, userData, mapCache, canon,
                   builds, starts, got, order>>

\* qfd_finalize that frees the callbacks set in the session
qfd_finalize_drop ==
    /\ state' = IF FinalizeLegal THEN "Available" ELSE state
    /\ hooks' = IF FinalizeLegal THEN [h \in Handles |-> EmptyBag] ELSE hooks
    /\ last' = Call("finalize", NoHandle, NoArg, Void)
    /\ UNCHANGED <<featurePresent, subst, userData, mapCache, canon, builds,
                   starts, got, order>>

qfd_finalize ==
    /\ state' = IF FinalizeLegal THEN "Available" ELSE state
    /\ last' = Call("finalize", NoHandle, NoArg, Void)
    /\ UNCHANGED <<featurePresent, subst, hooks, userData, mapCache, canon, builds,
                   starts, got, order>>

\* qfd_cleanup that frees the armed callbacks too
qfd_cleanup_all ==
    /\ state' = IF CleanupLegal THEN "CleanedUp" ELSE state
    /\ hooks' = IF CleanupLegal THEN [h \in Handles |-> EmptyBag] ELSE hooks
    /\ userData' = IF CleanupLegal THEN [h \in Handles |-> NoData] ELSE userData
    /\ mapCache' = IF CleanupLegal THEN [h \in Handles |-> Null] ELSE mapCache
    /\ canon' = IF CleanupLegal THEN {} ELSE canon
    /\ last' = Call("cleanup", NoHandle, NoArg, Void)
    /\ UNCHANGED <<featurePresent, subst, builds, starts, got, order>>

\* the iteration infrastructure qfd_cleanup() destroys; the armed callbacks
\* are retained
qfd_cleanup ==
    /\ state' = IF CleanupLegal THEN "CleanedUp" ELSE state
    /\ userData' = IF CleanupLegal THEN [h \in Handles |-> NoData] ELSE userData
    /\ mapCache' = IF CleanupLegal THEN [h \in Handles |-> Null] ELSE mapCache
    /\ canon' = IF CleanupLegal THEN {} ELSE canon
    /\ last' = Call("cleanup", NoHandle, NoArg, Void)
    /\ UNCHANGED <<featurePresent, subst, hooks, builds, starts, got, order>>

-----------------------------------------------------------------------------
(* Fast value-change callbacks *)

\* SetCbMode without the session window: a callback can be set any time after
\* qfd_init()
SetCbModeNoSession(ub) ==
    CASE Initialized  -> "performed"
      [] AfterCleanup -> ub
      [] OTHER        -> "rejected"

\* how a set-callback call is served: only inside a session; after cleanup
\* the call is undefined behaviour
SetCbMode(ub) ==
    CASE InSession    -> "performed"
      [] AfterCleanup -> ub
      [] OTHER        -> "rejected"

\* how the other QFD calls are served: after a successful qfd_init(); after
\* cleanup the call is undefined behaviour
ApiMode(ub) ==
    CASE Initialized  -> "performed"
      [] AfterCleanup -> ub
      [] OTHER        -> "rejected"

\* CanArm with the limitation on the type applied to VHDL objects too
CanArmTyped(h) ==
    /\ ObjSupported(h)
    /\ ObjLang(h) = "VHDL" \/ hooks[h] = EmptyBag

\* CanArm with the limit of one callback applied to VHDL objects too
CanArmOnce(h) ==
    /\ ObjLang(h) = "VHDL" \/ ObjSupported(h)
    /\ hooks[h] = EmptyBag

\* CanArm without the check for a callback already set
CanArmSecond(h) ==
    \/ ObjLang(h) = "VHDL"
    \/ ObjSupported(h)

\* a fast callback can be set: no unsupported type and no second callback on
\* a Verilog object; neither limitation exists for VHDL
CanArm(h) ==
    \/ ObjLang(h) = "VHDL"
    \/ ObjSupported(h) /\ hooks[h] = EmptyBag

\* Arms without the check of the value type
ArmsAnyType(h, t, ub) ==
    SetCbMode(ub) = "performed" /\ CanArm(h)

\* the set-callback call on an object of value type t arms a callback
\* Arms that does not ask for an open session
ArmsOutsideSession(h, t, ub) ==
    ApiMode(ub) = "performed" /\ ObjValType(h) = t /\ CanArm(h)

Arms(h, t, ub) ==
    SetCbMode(ub) = "performed" /\ ObjValType(h) = t /\ CanArm(h)

\* the set-callback call on a literal: the location of the constant
ServesLiteral(h, ub) ==
    SetCbMode(ub) = "performed" /\ ObjValType(h) = "QFD_VAL_LITERAL"

\* the common part of qfd_setCbAndGetValPtr and
\* qfd_setCbAndGetValPtrForSecondary
\* SetCb that stores the userData of a call it turns down
SetCbStoresData(op, h, c, t, lit, ub) ==
    /\ state # "Uninitialized"
    /\ Arms(h, t, ub) => BagCardinality(hooks[h]) < MaxVhdlCbs
    /\ hooks' = IF Arms(h, t, ub)
                THEN [hooks EXCEPT ![h] = @ (+) SetToBag({c})]
                ELSE hooks
    /\ userData' = IF SetCbMode(ub) = "performed" /\ ObjValType(h) = t
                      /\ ~AfterCleanup
                   THEN [userData EXCEPT ![h] = c.ud]
                   ELSE userData
    /\ last' = Call(op, h, c,
                     IF Arms(h, t, ub) THEN ValPtr(h)
                     ELSE IF lit THEN LitPtr(h)
                     ELSE Null)
    /\ UNCHANGED <<state, featurePresent, subst, mapCache, canon, builds,
                   starts, got, order>>

SetCb(op, h, c, t, lit, ub) ==
    /\ state # "Uninitialized"
    /\ Arms(h, t, ub) => BagCardinality(hooks[h]) < MaxVhdlCbs
    /\ hooks' = IF Arms(h, t, ub)
                THEN [hooks EXCEPT ![h] = @ (+) SetToBag({c})]
                ELSE hooks
    /\ userData' = IF Arms(h, t, ub) /\ ~AfterCleanup
                   THEN [userData EXCEPT ![h] = c.ud]
                   ELSE userData
    /\ last' = Call(op, h, c,
                     IF Arms(h, t, ub) THEN ValPtr(h)
                     ELSE IF lit THEN LitPtr(h)
                     ELSE Null)
    /\ UNCHANGED <<state, featurePresent, subst, mapCache, canon, builds, starts, got,
                   order>>

qfd_setCbAndGetValPtr(h, c, ub) ==
    SetCb("setCb", h, c, "QFD_VAL_PRIMARY", ServesLiteral(h, ub), ub)

\* qfd_setCbAndGetValPtrForSecondary that takes the path of primaries
\* without reconstructing the secondary
qfd_setCbAndGetValPtrForSecondaryAsPrimary(h, c, ub) ==
    SetCb("setCbSec", h, c, "QFD_VAL_PRIMARY", FALSE, ub)

qfd_setCbAndGetValPtrForSecondary(h, c, ub) ==
    SetCb("setCbSec", h, c, "QFD_VAL_SECONDARY", FALSE, ub)

\* the callback qfd_removeCb takes off an object that has some
Removable(h) == BagToSet(hooks[h])

\* AfterRemove that drops every callback of the object
AfterRemoveAll(h, s) == EmptyBag

\* the callbacks left on the object once qfd_removeCb has removed s
AfterRemove(h, s) == hooks[h] (-) SetToBag({s})

\* qfd_removeCb that reports success and leaves the callback set
qfd_removeCbKeep(h, ub) ==
    /\ state # "Uninitialized"
    /\ last' = Call("removeCb", h, NoArg,
                     IntRet(IF ApiMode(ub) = "performed" /\ hooks[h] # EmptyBag
                            THEN 1 ELSE 0))
    /\ UNCHANGED vars_but_last

qfd_removeCb(h, ub) ==
    /\ state # "Uninitialized"
    /\ LET found == ApiMode(ub) = "performed" /\ hooks[h] # EmptyBag
       IN \E s \in (IF found THEN Removable(h) ELSE {Null}) :
            /\ hooks' = IF found
                        THEN [hooks EXCEPT ![h] = AfterRemove(h, s)]
                        ELSE hooks
            /\ last' = Call("removeCb", h, NoArg,
                             IntRet(IF found THEN 1 ELSE 0))
    /\ UNCHANGED <<state, featurePresent, subst, userData, mapCache, canon, builds,
                   starts, got, order>>

\* the objects that have an entry in the qfdHandle -> userData mapping
HasSlot(h) ==
    /\ ObjValType(h) \in {"QFD_VAL_PRIMARY", "QFD_VAL_SECONDARY"}
    /\ FastLoggable(h)

qfd_setUserData(h, ud) ==
    /\ state # "Uninitialized"
    /\ userData' = IF Initialized /\ HasSlot(h)
                   THEN [userData EXCEPT ![h] = ud]
                   ELSE userData
    /\ last' = Call("setUserData", h, [cb |-> "-", ud |-> ud],
                     IntRet(IF Initialized /\ HasSlot(h) THEN 1 ELSE 0))
    /\ UNCHANGED <<state, featurePresent, subst, hooks, mapCache, canon, builds,
                   starts, got, order>>

\* qfd_getUserData that answers only while a callback is set on the object
qfd_getUserDataArmed(h) ==
    /\ state # "Uninitialized"
    /\ last' = Call("getUserData", h, NoArg,
                     [tag |-> "data",
                      v |-> IF hooks[h] # EmptyBag THEN userData[h] ELSE NoData])
    /\ UNCHANGED vars_but_last

qfd_getUserData(h) ==
    /\ state # "Uninitialized"
    /\ last' = Call("getUserData", h, NoArg,
                     [tag |-> "data", v |-> userData[h]])
    /\ UNCHANGED <<state, featurePresent, subst, hooks, userData, mapCache, canon,
                   builds, starts, got, order>>

\* qfd_getValType that answers inside a session only
qfd_getValTypeInSession(h, ub) ==
    /\ state # "Uninitialized"
    /\ last' = Call("getValType", h, NoArg,
                     ValTypeRet(IF SetCbMode(ub) = "performed"
                                THEN ObjValType(h)
                                ELSE "QFD_VAL_NONE"))
    /\ UNCHANGED vars_but_last

qfd_getValType(h, ub) ==
    /\ state # "Uninitialized"
    /\ last' = Call("getValType", h, NoArg,
                     ValTypeRet(IF ApiMode(ub) = "performed"
                                THEN ObjValType(h)
                                ELSE "QFD_VAL_NONE"))
    /\ UNCHANGED <<state, featurePresent, subst, hooks, userData, mapCache, canon,
                   builds, starts, got, order>>

\* the callbacks the simulator invokes when the object changes value
\* Dispatch by the qfdHandle -> userData mapping instead of the callbacks set
DispatchByUserData(h) ==
    SetToBag({c \in Clients : c.ud = userData[h]})

Dispatch(h) == hooks[h]

\* the objects whose value can change in the simulator's memory image:
\* primaries, and secondaries the simulator reconstructs for a callback
Live(h) ==
    \/ ObjValType(h) = "QFD_VAL_PRIMARY"
    \/ ObjValType(h) = "QFD_VAL_SECONDARY" /\ hooks[h] # EmptyBag

ValueChange(h) ==
    /\ Live(h)
    /\ last' = Call("valueChange", h, NoArg, CallsRet(Dispatch(h)))
    /\ UNCHANGED <<state, featurePresent, subst, hooks, userData, mapCache, canon,
                   builds, starts, got, order>>

-----------------------------------------------------------------------------
(* Map expressions of secondaries *)

\* the simulator's substitution record of each secondary: what the optimizer
\* replaced the object by.  s1 and s2 are two port formals mapped to the same
\* actual, p2[5:2]; s3 is {p1, p2}; the records of a1 and a2 are the design
\* under test
ObjSubst(h) ==
    CASE h \in {"s1", "s2"} ->
           [op |-> "PARTSEL", obj |-> "p2", left |-> 5, right |-> 2]
      [] h \in {"a1", "a2"} -> subst[h]
      [] OTHER ->
           [op |-> "CONCAT",
            args |-> << [op |-> "VAR", obj |-> "p1"],
                        [op |-> "VAR", obj |-> "p2"] >>]

Min(a, b) == IF a <= b THEN a ELSE b

Max(a, b) == IF a >= b THEN a ELSE b

VarExpr(h) == [opType |-> "QFD_SECMAP_VAR", handle |-> h]

BitSelectExpr(h, idx) ==
    [opType |-> "QFD_SECMAP_BITSEL", idx |-> idx, handle |-> h]

\* PartSelectExpr that keeps the bounds in the order of the declaration
PartSelectExprAsDeclared(h, a, b) ==
    [opType |-> "QFD_SECMAP_PARTSEL", lsb |-> b, msb |-> a, handle |-> h]

\* the offsets of a part select: msb is the greater whatever the direction
\* of the selected array
PartSelectExpr(h, a, b) ==
    [opType |-> "QFD_SECMAP_PARTSEL", lsb |-> Min(a, b), msb |-> Max(a, b),
     handle |-> h]

\* QFD_SECMAP_BITNEG and QFD_SECMAP_BITBUF
PrefixExpr(opType, operand) == [opType |-> opType, operand |-> operand]

\* QFD_SECMAP_BITAND, QFD_SECMAP_BITOR and QFD_SECMAP_BITXOR
InfixExpr(opType, lhs, rhs) == [opType |-> opType, lhs |-> lhs, rhs |-> rhs]

ReplicateExpr(num, operand) ==
    [opType |-> "QFD_SECMAP_REPLICATE", num |-> num, operand |-> operand]

\* OperandsExpr with numOperands the index of the last operand, from 0
OperandsExprFromZero(opType, ops) ==
    [opType |-> opType, numOperands |-> Len(ops) - 1, operands |-> ops]

\* QFD_SECMAP_CONCAT and QFD_SECMAP_TERNARY
OperandsExpr(opType, ops) ==
    [opType |-> opType, numOperands |-> Len(ops), operands |-> ops]

\* QFD_SECMAP_LITERAL: no operands, the constant it stands for
LiteralExpr(v) == [opType |-> "QFD_SECMAP_LITERAL", value |-> v]

\* the TQfdSecMapExprOpType of a substitution step
OpTypeOf(op) == "QFD_SECMAP_" \o op

RECURSIVE BuildExpr(_)
\* one node per substitution step, the operands first
BuildExpr(sub) ==
    CASE sub.op = "VAR"     -> VarExpr(sub.obj)
      [] sub.op = "BITSEL"  -> BitSelectExpr(sub.obj, sub.idx)
      [] sub.op = "PARTSEL" -> PartSelectExpr(sub.obj, sub.left, sub.right)
      [] sub.op = "LITERAL" -> LiteralExpr(sub.value)
      [] sub.op \in {"BITNEG", "BITBUF"} ->
           PrefixExpr(OpTypeOf(sub.op), BuildExpr(sub.args[1]))
      [] sub.op \in {"BITAND", "BITOR", "BITXOR"} ->
           InfixExpr(OpTypeOf(sub.op), BuildExpr(sub.args[1]),
                     BuildExpr(sub.args[2]))
      [] sub.op = "REPLICATE" ->
           ReplicateExpr(sub.num, BuildExpr(sub.args[1]))
      [] OTHER ->
           OperandsExpr(OpTypeOf(sub.op),
                        [i \in 1..Len(sub.args) |-> BuildExpr(sub.args[i])])

\* TQfdSecMapExprOpType as a number
OpCode(opType) ==
    CASE opType = "QFD_SECMAP_VAR"       -> 0
      [] opType = "QFD_SECMAP_BITSEL"    -> 1
      [] opType = "QFD_SECMAP_PARTSEL"   -> 2
      [] opType = "QFD_SECMAP_CONCAT"    -> 3
      [] opType = "QFD_SECMAP_REPLICATE" -> 4
      [] opType = "QFD_SECMAP_BITAND"    -> 5
      [] opType = "QFD_SECMAP_BITOR"     -> 6
      [] opType = "QFD_SECMAP_BITXOR"    -> 7
      [] opType = "QFD_SECMAP_BITNEG"    -> 8
      [] opType = "QFD_SECMAP_BITBUF"    -> 9
      [] opType = "QFD_SECMAP_TERNARY"   -> 10
      [] OTHER                           -> 11

\* a qfdHandle as a number
HandleId(h) ==
    CASE h = "p1" -> 1 [] h = "p2" -> 2 [] h = "p3" -> 3 [] h = "l1" -> 4
      [] h = "s1" -> 5 [] h = "s2" -> 6 [] h = "s3" -> 7 [] h = "a1" -> 8
      [] h = "a2" -> 9 [] OTHER -> 0

\* the operands of a node, in order; none for a leaf
Operands(e) ==
    CASE e.opType \in {"QFD_SECMAP_BITNEG", "QFD_SECMAP_BITBUF",
                       "QFD_SECMAP_REPLICATE"} -> << e.operand >>
      [] e.opType \in {"QFD_SECMAP_BITAND", "QFD_SECMAP_BITOR",
                       "QFD_SECMAP_BITXOR"} -> << e.lhs, e.rhs >>
      [] e.opType \in {"QFD_SECMAP_CONCAT", "QFD_SECMAP_TERNARY"} -> e.operands
      [] OTHER -> << >>

\* what a node holds besides its kind and its operands
Payload(e) ==
    CASE e.opType = "QFD_SECMAP_VAR"       -> << HandleId(e.handle) >>
      [] e.opType = "QFD_SECMAP_BITSEL"    -> << HandleId(e.handle), e.idx >>
      [] e.opType = "QFD_SECMAP_PARTSEL"   ->
           << HandleId(e.handle), e.lsb, e.msb >>
      [] e.opType = "QFD_SECMAP_LITERAL"   -> << e.value >>
      [] e.opType = "QFD_SECMAP_REPLICATE" -> << e.num >>
      [] e.opType \in {"QFD_SECMAP_CONCAT", "QFD_SECMAP_TERNARY"} ->
           << e.numOperands >>
      [] OTHER -> << >>

RECURSIVE FlattenFp(_, _)
FlattenFp(ops, i) ==
    IF i > Len(ops) THEN << >> ELSE ops[i] \o FlattenFp(ops, i + 1)

RECURSIVE SumFp(_, _)
SumFp(ops, i) ==
    IF i > Len(ops) THEN 0 ELSE ops[i] + SumFp(ops, i + 1)

RECURSIVE FingerprintSum(_)
\* Fingerprint as a checksum: the operands and the payload are added up
FingerprintSum(e) ==
    << OpCode(e.opType),
       SumFp(Payload(e), 1)
       + SumFp(FlattenFp([i \in 1..Len(Operands(e)) |->
                            FingerprintSum(Operands(e)[i])], 1), 1) >>

RECURSIVE Fingerprint(_)
\* the structural fingerprint of a map expression: the node kind, what the
\* node holds, then the fingerprints of the operands in order
Fingerprint(e) ==
    << OpCode(e.opType) >> \o Payload(e)
    \o FlattenFp([i \in 1..Len(Operands(e)) |-> Fingerprint(Operands(e)[i])], 1)

\* what qfd_getMapExpr returns: the expression, its address, and
\* *isAliasOfSecondaryP
ExprRet(h, n, e, alias) ==
    [tag |-> "expr", ref |-> << HandleId(h), n >>, expr |-> e, alias |-> alias]

\* CanonOf that takes any secondary already returned, whatever its expression
CanonOfAny(fp) == canon

\* the secondaries already returned with the same map expression
CanonOf(fp) == {c \in canon : c.fp = fp}

\* NewMapExpr that refers an alias to the first secondary without setting
\* *isAliasOfSecondaryP
NewMapExprUnflagged(h) ==
    LET e  == BuildExpr(ObjSubst(h))
        fp == Fingerprint(e)
    IN  IF CanonOf(fp) = {}
        THEN ExprRet(h, builds[h] + 1, e, 0)
        ELSE ExprRet(h, builds[h] + 1,
                     VarExpr((CHOOSE c \in CanonOf(fp) : TRUE).h), 0)

\* NewMapExpr without the lookup in the fingerprint table
NewMapExprNoAlias(h) ==
    ExprRet(h, builds[h] + 1, BuildExpr(ObjSubst(h)), 0)

\* the map expression of a secondary queried for the first time: the
\* expression in terms of primaries for the first secondary with this
\* expression, a reference to that secondary for the others
NewMapExpr(h) ==
    LET e  == BuildExpr(ObjSubst(h))
        fp == Fingerprint(e)
    IN  IF CanonOf(fp) = {}
        THEN ExprRet(h, builds[h] + 1, e, 0)
        ELSE ExprRet(h, builds[h] + 1,
                     VarExpr((CHOOSE c \in CanonOf(fp) : TRUE).h), 1)

\* Memo that never finds the handle
MemoNone(h) == Null

\* the map expression already returned for the handle, if any
Memo(h) == mapCache[h]

qfd_getMapExpr(h, ub) ==
    /\ state # "Uninitialized"
    /\ LET mode  == ApiMode(ub)
           serve == mode = "performed" /\ ObjValType(h) = "QFD_VAL_SECONDARY"
           fresh == serve /\ Memo(h) = Null
           keep  == fresh /\ ~AfterCleanup
           e     == IF fresh THEN NewMapExpr(h) ELSE Memo(h)
       IN /\ mapCache' = IF keep THEN [mapCache EXCEPT ![h] = e] ELSE mapCache
          /\ builds' = IF keep THEN [builds EXCEPT ![h] = @ + 1] ELSE builds
          /\ canon' = IF keep /\ e.alias = 0
                      THEN canon \cup {[fp |-> Fingerprint(e.expr), h |-> h]}
                      ELSE canon
          /\ last' = Call("getMapExpr", h, NoArg, IF serve THEN e ELSE Null)
          /\ got' = IF serve /\ ~AfterCleanup /\ got[h] = Null
                    THEN [got EXCEPT ![h] = e]
                    ELSE got
          /\ order' = IF serve /\ ~AfterCleanup /\ got[h] = Null
                      THEN Append(order, h)
                      ELSE order
    /\ UNCHANGED <<state, featurePresent, subst, hooks, userData, starts>>

-----------------------------------------------------------------------------

\* the outcomes to draw for a call made now: one, unless the call is undefined
\* behaviour
UBChoices == IF AfterCleanup THEN UBOutcomes ELSE {"performed"}

\* the calls of a client that iterates over the objects H, and the
\* simulator's value changes of these objects
NextOn(H) ==
    \/ qfd_init
    \/ qfd_start
    \/ qfd_finalize
    \/ qfd_cleanup
    \/ \E h \in H, c \in Clients, ub \in UBChoices :
         qfd_setCbAndGetValPtr(h, c, ub)
    \/ \E h \in H, c \in Clients, ub \in UBChoices :
         qfd_setCbAndGetValPtrForSecondary(h, c, ub)
    \/ \E h \in H, ub \in UBChoices : qfd_removeCb(h, ub)
    \/ \E h \in H, ud \in UserDatas : qfd_setUserData(h, ud)
    \/ \E h \in H : qfd_getUserData(h)
    \/ \E h \in H, ub \in UBChoices : qfd_getValType(h, ub)
    \/ \E h \in H, ub \in UBChoices : qfd_getMapExpr(h, ub)
    \/ \E h \in H : ValueChange(h)

Next == NextOn(Handles)

\* every object of the design.  Callbacks, userData and map expressions are
\* kept per object, and only secondaries meet in the fingerprint table, so
\* the properties are checked on the two groups of objects below, each with
\* the whole session protocol.
Spec == Init /\ [][Next]_vars

\* the objects logged directly: the primaries, the literal, and a handle
\* that is no design object
CbHandles == {"p1", "p2", "p3", "l1", "x0"}

NextCb == NextOn(CbHandles)

SpecCb == Init /\ [][NextCb]_vars

\* the objects reconstructed, the secondaries, and the literal
MapHandles == {"s1", "s2", "s3", "l1"}

\* the substitution records the design under test draws from: pairs that
\* differ in the order of the operands or in the replication count only, over
\* every kind of node, and a part select of a descending (p2) and of an
\* ascending (p3) array
Formulas ==
    LET A  == [op |-> "VAR", obj |-> "p1"]
        B  == [op |-> "VAR", obj |-> "p2"]
        L  == [op |-> "LITERAL", value |-> 5]
        X  == [op |-> "BITXOR", args |-> << A, B >>]
        NA == [op |-> "BITNEG", args |-> << A >>]
        BB == [op |-> "BITBUF", args |-> << B >>]
        S  == [op |-> "BITSEL", obj |-> "p2", idx |-> 3]
        PD == [op |-> "PARTSEL", obj |-> "p2", left |-> 5, right |-> 2]
        PA == [op |-> "PARTSEL", obj |-> "p3", left |-> 2, right |-> 5]
    IN  << [op |-> "CONCAT", args |-> << A, X >>],
           [op |-> "CONCAT", args |-> << X, A >>],
           [op |-> "BITAND", args |-> << A, BB >>],
           [op |-> "BITAND", args |-> << BB, A >>],
           [op |-> "BITOR", args |-> << S, A >>],
           [op |-> "BITOR", args |-> << A, S >>],
           [op |-> "TERNARY", args |-> << NA, B, L >>],
           [op |-> "TERNARY", args |-> << B, NA, L >>],
           [op |-> "REPLICATE", num |-> 2, args |-> << PA >>],
           [op |-> "REPLICATE", num |-> 3, args |-> << PA >>],
           PD,
           PA >>

\* the designs under test: a1 and a2 with any two of the records, or with
\* the same record twice
Designs ==
    {[h \in {"a1", "a2"} |-> IF h = "a1" THEN Formulas[p[1]] ELSE Formulas[p[2]]] :
       p \in {q \in (1..Len(Formulas)) \X (1..Len(Formulas)) : q[1] <= q[2]}}

\* two secondaries of a design under test, and a primary
FpHandles == {"a1", "a2", "p3"}

InitFp == InitOn(Designs)

NextFp == NextOn(FpHandles)

SpecFp == InitFp /\ [][NextFp]_vars

NextMap == NextOn(MapHandles)

SpecMap == Init /\ [][NextMap]_vars

-----------------------------------------------------------------------------
(* Properties *)

IsPrimary(h) == ObjValType(h) = "QFD_VAL_PRIMARY"

IsSecondary(h) == ObjValType(h) = "QFD_VAL_SECONDARY"

IsLiteral(h) == ObjValType(h) = "QFD_VAL_LITERAL"

SetCbOps == {"setCb", "setCbSec"}

\* C1: on a primary, a set-callback call made after a successful qfd_init()
\* and before any qfd_start() returns null and arms nothing; a set-callback
\* call made in a second session (start, finalize, start) on a supported
\* object without a callback returns a value location and arms the callback.
C1_SessionDiscipline ==
    [][ \A h \in Handles :
          (last'.op = "setCb" /\ last'.h = h /\ IsPrimary(h)) =>
            /\ (state = "Available" /\ starts = 0) =>
                 (last'.ret = Null /\ hooks' = hooks)
            /\ (state = "SessionOpen" /\ starts >= 2
                  /\ FastLoggable(h) /\ hooks[h] = EmptyBag) =>
                 (last'.ret.tag = "ptr" /\ last'.ret.obj = h
                    /\ hooks'[h] = SetToBag({last'.arg})) ]_vars

\* C1 witness: a callback set on a primary in a second session
C1_Witness ==
    /\ state = "SessionOpen"
    /\ starts >= 2
    /\ last.op = "setCb"
    /\ IsPrimary(last.h)
    /\ last.ret.tag = "ptr"
    /\ hooks[last.h] = SetToBag({last.arg})

\* C2: once qfd_cleanup() has been called, every set-callback call and every
\* qfd_getMapExpr call returns null and arms no callback.
C2_RejectedAfterCleanup ==
    [][ (state = "CleanedUp" /\ last'.op \in SetCbOps \cup {"getMapExpr"}) =>
          (last'.ret = Null /\ hooks' = hooks) ]_vars

\* C3: a Verilog object never has more than one fast callback, and a
\* set-callback call on a Verilog object that has one returns null and
\* leaves the callbacks as they are, whatever funcp and userData it passes.
C3_OneCbPerVerilogObject ==
    [][ \A h \in Handles :
          ObjLang(h) = "Verilog" =>
            /\ BagCardinality(hooks'[h]) <= 1
            /\ (last'.op \in SetCbOps /\ last'.h = h /\ hooks[h] # EmptyBag) =>
                 (last'.ret = Null /\ hooks' = hooks) ]_vars

\* C3 witness: inside a session, a second set-callback call on a supported
\* Verilog primary, with another funcp and userData, was turned down
C3_Witness ==
    /\ InSession
    /\ last.op = "setCb"
    /\ IsPrimary(last.h)
    /\ ObjLang(last.h) = "Verilog"
    /\ ObjSupported(last.h)
    /\ last.ret = Null
    /\ hooks[last.h] # EmptyBag
    /\ last.arg \notin BagToSet(hooks[last.h])

\* a qfd_removeCb call on primary h, served before cleanup, follows call
\* `prev` on the same handle
RemoveStep(h, prev, cur) ==
    /\ Initialized
    /\ IsPrimary(h)
    /\ cur.op = "removeCb"
    /\ cur.h = h
    /\ prev.h = h

Pos(h) == CHOOSE i \in 1..Len(order) : order[i] = h

\* the secondaries queried so far whose map expression is that of h
QueriedLike(h) ==
    {g \in Handles : IsSecondary(g) /\ got[g] # Null /\ ObjSubst(g) = ObjSubst(h)}

\* the first of them to have been queried
FirstLike(h) == CHOOSE g \in QueriedLike(h) : \A k \in QueriedLike(h) : Pos(g) <= Pos(k)

\* C5 as stated: among the secondaries with one map expression,
\* qfd_getMapExpr sets the alias flag to 0 for the first handle queried and
\* to 1 for every handle queried after it, and returns structurally equal
\* expressions for all of them.
C5_AliasesShareTree ==
    \A h \in Handles :
      (IsSecondary(h) /\ got[h] # Null) =>
        /\ got[h].alias = (IF FirstLike(h) = h THEN 0 ELSE 1)
        /\ \A g \in QueriedLike(h) : got[g].expr = got[h].expr

\* C5 amended: among the secondaries with one map expression, qfd_getMapExpr
\* sets the alias flag to 0 for the first handle queried and returns its map
\* expression in terms of primaries (p2[5:2] as PARTSEL p2, lsb 2, msb 5);
\* for every handle queried after it, it sets the alias flag to 1 and
\* returns a VAR expression whose handle is that first secondary, whatever
\* the order of the queries.
C5_AliasesReferToFirst ==
    \A h \in Handles :
      (IsSecondary(h) /\ got[h] # Null) =>
        IF FirstLike(h) = h
        THEN /\ got[h].alias = 0
             /\ got[h].expr = BuildExpr(ObjSubst(h))
             /\ h \in {"s1", "s2"} =>
                  got[h].expr = [opType |-> "QFD_SECMAP_PARTSEL", lsb |-> 2,
                                 msb |-> 5, handle |-> "p2"]
        ELSE /\ got[h].alias = 1
             /\ got[h].expr = [opType |-> "QFD_SECMAP_VAR",
                               handle |-> FirstLike(h)]

\* C5 witness: s2 was queried first and s1, with the same map expression,
\* after it
C5_Witness ==
    /\ got["s1"] # Null
    /\ got["s2"] # Null
    /\ Pos("s2") < Pos("s1")
    /\ got["s1"].alias = 1

\* C6: every qfd_getMapExpr call on a secondary made between a successful
\* qfd_init() and qfd_cleanup() returns what the first such call on that
\* handle returned: the same expression at the same address with the same
\* alias flag, whatever handles were queried in between.
C6_MapExprMemoized ==
    (last.op = "getMapExpr" /\ Initialized /\ IsSecondary(last.h)) =>
      /\ last.ret.tag = "expr"
      /\ last.ret = got[last.h]

\* C6 witness: s1 is queried again after s2, which has the same map
\* expression, was first queried after s1
C6_Witness ==
    /\ Initialized
    /\ last.op = "getMapExpr"
    /\ last.h = "s1"
    /\ Len(order) >= 2
    /\ order[1] = "s1"
    /\ order[2] = "s2"

\* C7: a literal never has a fast callback armed, so that no callback is ever
\* invoked for it, and a set-callback call on it inside a session returns a
\* location that holds its constant.
C7_LiteralHasNoCallback ==
    \A h \in Handles :
      IsLiteral(h) =>
        /\ hooks[h] = EmptyBag
        /\ (last.op = "valueChange" /\ last.h = h) => last.ret.calls = EmptyBag
        /\ (last.op = "setCb" /\ last.h = h /\ InSession) =>
             last.ret = [tag |-> "ptr", obj |-> h, kind |-> ObjDescKind(h),
                         size |-> ObjSize(h), value |-> ObjLiteral(h)]

\* C7 witness: inside a session, the set-callback call on the literal 3'b101
\* returned a location holding 5
C7_Witness ==
    /\ InSession
    /\ last.op = "setCb"
    /\ last.h = "l1"
    /\ last.ret.tag = "ptr"
    /\ last.ret.value = 5

\* C8: the session state changes only by qfd_init() from Uninitialized, by
\* qfd_start() from Available to SessionOpen, by qfd_finalize() from
\* SessionOpen to Available and by qfd_cleanup() from Available; qfd_start()
\* in Available and qfd_finalize() in SessionOpen always take effect, and in
\* any other state they change nothing.
C8_SessionTransitions ==
    [][ /\ (state' # state) =>
             \/ /\ state = "Uninitialized"
                /\ last'.op = "init"
                /\ state' \in {"Available", "InitFailed"}
             \/ state = "Available" /\ last'.op = "start" /\ state' = "SessionOpen"
             \/ state = "SessionOpen" /\ last'.op = "finalize" /\ state' = "Available"
             \/ state = "Available" /\ last'.op = "cleanup" /\ state' = "CleanedUp"
        /\ last'.op = "start" =>
             state' = (IF state = "Available" THEN "SessionOpen" ELSE state)
        /\ last'.op = "finalize" =>
             state' = (IF state = "SessionOpen" THEN "Available" ELSE state) ]_vars

\* C8 witness: a session has been closed and another one opened
C8_Witness ==
    /\ state = "Available"
    /\ last.op = "finalize"
    /\ starts >= 2

\* C9: the first qfd_init() returns 1 and makes QFD Available when the
\* simulator has the feature, and returns 0 and leaves QFD unavailable for
\* good when it has not, so that a session is only ever open with the feature
\* present; every later qfd_init() is a hard failure that leaves the session
\* state as it is.
C9_InitOnce ==
    [][ /\ last'.op = "init" =>
             IF state = "Uninitialized"
             THEN IF featurePresent
                  THEN state' = "Available" /\ last'.ret = IntRet(1)
                  ELSE state' = "InitFailed" /\ last'.ret = IntRet(0)
             ELSE state' = state /\ last'.ret = HardFailure
        /\ state = "InitFailed" => state' = "InitFailed"
        /\ state' \in {"Available", "SessionOpen"} => featurePresent ]_vars

\* C9 witness: qfd_init() called again while a session is open
C9_Witness ==
    /\ state = "SessionOpen"
    /\ last.op = "init"
    /\ last.ret = HardFailure

\* C10: qfd_cleanup() empties the qfdHandle -> userData mapping, the map
\* expressions kept per handle and the fingerprint table, and leaves every
\* armed callback armed; after it, a value change of an object still invokes
\* each callback armed on the object, with its userData.
C10_CleanupKeepsCallbacks ==
    [][ /\ (last'.op = "cleanup" /\ state = "Available") =>
             /\ hooks' = hooks
             /\ userData' = [h \in Handles |-> NoData]
             /\ mapCache' = [h \in Handles |-> Null]
             /\ canon' = {}
        /\ (state = "CleanedUp" /\ last'.op = "valueChange") =>
             last'.ret = [tag |-> "calls", calls |-> hooks[last'.h]] ]_vars

\* C10 witness: after a cleanup that found a map expression cached, a value
\* change has invoked a callback armed before the cleanup
C10_Witness ==
    /\ state = "CleanedUp"
    /\ last.op = "valueChange"
    /\ last.ret.calls # EmptyBag
    /\ got[last.h] # Null
    /\ userData[last.h] = NoData

-----------------------------------------------------------------------------
(* Map expression trees *)

RECURSIVE PartSelectsOrdered(_)
\* every part select of the tree has its msb at or above its lsb
PartSelectsOrdered(e) ==
    /\ e.opType = "QFD_SECMAP_PARTSEL" => e.msb >= e.lsb
    /\ \A i \in 1..Len(Operands(e)) : PartSelectsOrdered(Operands(e)[i])

\* C11: every part select of every map expression qfd_getMapExpr returns has
\* msb >= lsb, whether the selected array is declared ascending or descending.
C11_PartSelectMsbAboveLsb ==
    /\ \A h \in Handles : got[h] # Null => PartSelectsOrdered(got[h].expr)
    /\ (last.op = "getMapExpr" /\ last.ret # Null) =>
         PartSelectsOrdered(last.ret.expr)

\* C11 witness: the map expressions of a part select of a descending array
\* (a1, p2[5:2]) and of one of an ascending array (a2, p3[2:5]) were returned
C11_Witness ==
    /\ subst["a1"].op = "PARTSEL" /\ subst["a1"].left > subst["a1"].right
    /\ subst["a2"].op = "PARTSEL" /\ subst["a2"].left < subst["a2"].right
    /\ got["a1"] # Null /\ got["a1"].expr.opType = "QFD_SECMAP_PARTSEL"
    /\ got["a2"] # Null /\ got["a2"].expr.opType = "QFD_SECMAP_PARTSEL"
    /\ last.op = "getMapExpr"

\* the two records are the same operator over the same operands, in another
\* order or with another replication count
DifferInOrderOrCount(a, b) ==
    /\ a # b
    /\ a.op = b.op
    /\ a.op \in {"CONCAT", "TERNARY", "BITAND", "BITOR", "BITXOR", "REPLICATE"}
    /\ {a.args[i] : i \in 1..Len(a.args)} = {b.args[i] : i \in 1..Len(b.args)}

\* C12: the fingerprint tells apart two map expressions that differ only in
\* the order of the operands (concatenation, infix, ternary) or in the
\* replication count, and two secondaries with such expressions are never
\* reported as aliases of one another.
C12_FingerprintOrderAndCount ==
    DifferInOrderOrCount(subst["a1"], subst["a2"]) =>
      /\ Fingerprint(BuildExpr(subst["a1"])) # Fingerprint(BuildExpr(subst["a2"]))
      /\ \A h \in {"a1", "a2"} :
           got[h] # Null => (got[h].alias = 0 /\ got[h].expr = BuildExpr(subst[h]))

\* C12 witness: both secondaries of a design whose records differ in order or
\* count only were queried, and each got its own expression
C12_Witness ==
    /\ DifferInOrderOrCount(subst["a1"], subst["a2"])
    /\ got["a1"] # Null /\ got["a1"].alias = 0
    /\ got["a2"] # Null /\ got["a2"].alias = 0
    /\ Len(order) = 2

-----------------------------------------------------------------------------
(* Classification, dispatch and user data *)

\* C13: qfd_getValType is a pure lookup: after a successful qfd_init and
\* before qfd_cleanup, inside a session or outside, it returns the TQfdValType
\* of the object, the same on every call, and changes neither the session nor
\* the callbacks, the user data or the map expressions kept.
C13_GetValTypePure ==
    [][ (Initialized /\ last'.op = "getValType") =>
          /\ last'.ret = ValTypeRet(ObjValType(last'.h))
          /\ (last.op = "getValType" /\ last.h = last'.h) => last'.ret = last.ret
          /\ UNCHANGED <<state, hooks, userData, mapCache, canon, builds>> ]_vars

\* C13 witness: a secondary classified outside a session, while a callback is
\* set and a map expression is kept
C13_Witness ==
    /\ state = "Available"
    /\ starts >= 1
    /\ last.op = "getValType"
    /\ last.ret = ValTypeRet("QFD_VAL_SECONDARY")
    /\ mapCache[last.h] # Null
    /\ \E h \in Handles : hooks[h] # EmptyBag

StoredBy(call, literalToo) ==
    \/ call.op = "setUserData" /\ call.ret = IntRet(1)
    \/ /\ call.op \in SetCbOps
       /\ call.ret.tag = "ptr"
       /\ (literalToo \/ ~IsLiteral(call.h))

\* C15 as stated: qfd_getUserData(h) returns the userData of the most recent
\* successful qfd_setUserData(h, v) or successful set-callback call on h,
\* whatever the kind of h; qfd_setUserData on a handle without an entry
\* returns 0 and changes nothing.
C15_UserDataOfAnySetCb ==
    [][ Initialized =>
          /\ (last'.op = "getUserData" /\ last'.h = last.h
                /\ StoredBy(last, TRUE)) =>
               last'.ret.v = last.arg.ud
          /\ (last'.op = "setUserData" /\ ~HasSlot(last'.h)) =>
               (last'.ret = IntRet(0) /\ userData' = userData) ]_vars

\* C15, amended: qfd_getUserData(h) returns the userData of the most recent
\* qfd_setUserData(h, v) that returned 1 or set-callback call that returned a
\* value location for a primary or secondary h, whether or not a callback is
\* still set; a set-callback call on a literal ignores its userData;
\* qfd_setUserData on a handle without an entry returns 0 and changes
\* nothing.
C15_UserDataLastStored ==
    [][ Initialized =>
          /\ (last'.op = "getUserData" /\ last'.h = last.h
                /\ StoredBy(last, FALSE)) =>
               last'.ret.v = last.arg.ud
          /\ last'.op = "getUserData" => last'.ret.v = userData[last'.h]
          /\ last'.op = "setUserData" =>
               IF HasSlot(last'.h)
               THEN /\ last'.ret = IntRet(1)
                    /\ userData' = [userData EXCEPT ![last'.h] = last'.arg.ud]
               ELSE /\ last'.ret = IntRet(0)
                    /\ userData' = userData
          /\ last'.op \in SetCbOps =>
               IF StoredBy(last', FALSE)
               THEN userData' = [userData EXCEPT ![last'.h] = last'.arg.ud]
               ELSE userData' = userData
          /\ last'.op \notin (SetCbOps \cup {"setUserData", "cleanup"}) =>
               userData' = userData ]_vars

\* C15 witness: the userData of a primary is returned while no callback is
\* set on it
C15_Witness ==
    /\ Initialized
    /\ last.op = "getUserData"
    /\ IsPrimary(last.h)
    /\ last.ret.v \in UserDatas
    /\ hooks[last.h] = EmptyBag

-----------------------------------------------------------------------------
(* Limitations of fast callbacks *)

\* C16: qfd_setCbAndGetValPtr on a Verilog primary of an unsupported type
\* returns null as an ordinary return value, in every state, and sets no
\* callback; on a VHDL primary the type is no obstacle: inside a session the
\* call returns a value location and sets the callback.
C16_UnsupportedTypeReturnsNull ==
    [][ \A h \in Handles :
          (last'.op = "setCb" /\ last'.h = h /\ IsPrimary(h)
             /\ ~ObjSupported(h)) =>
            /\ ObjLang(h) = "Verilog" =>
                 /\ last'.ret = Null
                 /\ last'.ret # HardFailure
                 /\ hooks' = hooks
                 /\ state' = state
            /\ (ObjLang(h) = "VHDL" /\ InSession) =>
                 /\ last'.ret = ValPtr(h)
                 /\ hooks'[h] = hooks[h] (+) SetToBag({last'.arg}) ]_vars

\* C16 witness: inside a session a set-callback call on a Verilog primary of
\* an unsupported type has returned null, while a VHDL primary of an
\* unsupported type holds a callback
C16_Witness ==
    /\ InSession
    /\ last.op = "setCb"
    /\ IsPrimary(last.h)
    /\ ObjLang(last.h) = "Verilog"
    /\ ~ObjSupported(last.h)
    /\ last.ret = Null
    /\ \E g \in Handles :
         /\ IsPrimary(g) /\ ObjLang(g) = "VHDL" /\ ~ObjSupported(g)
         /\ hooks[g] # EmptyBag

\* C17: on a VHDL object that already has a fast callback, a further
\* qfd_setCbAndGetValPtr inside a session returns a value location and adds
\* its callback, and a value change of the object invokes every callback set
\* on it, each as often as it was set.
C17_VhdlManyCallbacks ==
    [][ \A h \in Handles :
          (IsPrimary(h) /\ ObjLang(h) = "VHDL" /\ last'.h = h) =>
            /\ (last'.op = "setCb" /\ InSession /\ hooks[h] # EmptyBag) =>
                 /\ last'.ret = ValPtr(h)
                 /\ hooks'[h] = hooks[h] (+) SetToBag({last'.arg})
                 /\ BagCardinality(hooks'[h]) >= 2
            /\ last'.op = "valueChange" =>
                 \A c \in Clients :
                   CopiesIn(c, last'.ret.calls) = CopiesIn(c, hooks[h]) ]_vars

\* C17 witness: a value change of a VHDL object invoked the two different
\* callbacks set on it
C17_Witness ==
    /\ last.op = "valueChange"
    /\ ObjLang(last.h) = "VHDL"
    /\ BagCardinality(last.ret.calls) = 2
    /\ Cardinality(BagToSet(last.ret.calls)) = 2
    /\ last.ret.calls = hooks[last.h]

\* the call is a set-callback call for the kind of object it is meant for
SetCbFor(call, h) ==
    /\ call.h = h
    /\ \/ call.op = "setCb" /\ IsPrimary(h)
       \/ call.op = "setCbSec" /\ IsSecondary(h)

\* C18: qfd_setCbAndGetValPtrForSecondary on a secondary follows the rules of
\* qfd_setCbAndGetValPtr on a primary: inside a session, on an object of a
\* supported type without a callback (or a VHDL object), it returns a value
\* location, sets the callback and the userData, and from then on the
\* secondary changes value and every change invokes the callback with its
\* userData; outside a session, on an unsupported type, or on a Verilog
\* object that has a callback it returns null and sets nothing.
C18_SecondaryAsPrimary ==
    [][ \A h \in Handles :
          /\ (SetCbFor(last', h) /\ ~AfterCleanup) =>
               IF /\ InSession
                  /\ ObjLang(h) = "VHDL" \/ (ObjSupported(h) /\ hooks[h] = EmptyBag)
               THEN /\ last'.ret = ValPtr(h)
                    /\ hooks'[h] = hooks[h] (+) SetToBag({last'.arg})
                    /\ userData'[h] = last'.arg.ud
                    /\ Live(h)'
               ELSE /\ last'.ret = Null
                    /\ hooks' = hooks
          /\ (last'.op = "valueChange" /\ last'.h = h /\ IsSecondary(h)) =>
               /\ hooks[h] # EmptyBag
               /\ last'.ret = CallsRet(hooks[h]) ]_vars

\* C18 witness: a secondary on which a callback was set in an earlier session
\* changed value, and the callback was invoked with its userData
C18_Witness ==
    /\ state = "Available"
    /\ last.op = "valueChange"
    /\ IsSecondary(last.h)
    /\ BagCardinality(last.ret.calls) = 1
    /\ \E c \in BagToSet(last.ret.calls) : c.ud = userData[last.h]

-----------------------------------------------------------------------------
(* Life of a fast callback *)

\* C19: a fast callback stays set from the call that set it until
\* qfd_removeCb or qfd_cleanup: qfd_init, qfd_start, qfd_finalize,
\* qfd_getValType, qfd_getMapExpr, qfd_setUserData, qfd_getUserData and value
\* changes leave every callback, with its userData, as it was, so a callback
\* set in one session is still set in the sessions after it.
C19_CallbacksPersist ==
    [][ /\ last'.op \in {"init", "start", "finalize", "getValType",
                         "getMapExpr", "setUserData", "getUserData",
                         "valueChange"} => hooks' = hooks
        /\ hooks' # hooks => last'.op \in (SetCbOps \cup {"removeCb", "cleanup"})
        /\ \A h \in Handles :
             (hooks[h] # EmptyBag /\ last'.op \notin {"removeCb", "cleanup"}) =>
               hooks[h] \sqsubseteq hooks'[h] ]_vars

\* C19 witness: a second session was opened while a callback set earlier is
\* still set
C19_Witness ==
    /\ InSession
    /\ starts >= 2
    /\ last.op = "start"
    /\ \E h \in Handles : hooks[h] # EmptyBag

RECURSIVE ArmedOn(_, _)
\* the number of callbacks hk holds on the objects of S
ArmedOn(hk, S) ==
    IF S = {} THEN 0
    ELSE LET h == CHOOSE x \in S : TRUE
         IN  BagCardinality(hk[h]) + ArmedOn(hk, S \ {h})

Primaries == {h \in Handles : IsPrimary(h)}

\* C20: the callbacks armed on primaries are counted by the calls: each
\* qfd_setCbAndGetValPtr that returns a value location for a primary arms
\* exactly one, each that returns null and each on a literal arms none, each
\* qfd_removeCb that returns 1 disarms exactly one, and no other call changes
\* the number.
C20_OneHookPerSetCb ==
    [][ LET before == ArmedOn(hooks, Primaries)
            after  == ArmedOn(hooks', Primaries)
            h      == last'.h
        IN  /\ (last'.op = "setCb" /\ IsPrimary(h)) =>
                 IF last'.ret.tag = "ptr"
                 THEN /\ after = before + 1
                      /\ hooks'[h] = hooks[h] (+) SetToBag({last'.arg})
                 ELSE hooks' = hooks
            /\ (last'.op = "setCb" /\ ~IsPrimary(h)) => hooks' = hooks
            /\ (last'.op = "removeCb" /\ IsPrimary(h)) =>
                 IF last'.ret = IntRet(1)
                 THEN after = before - 1
                 ELSE hooks' = hooks
            /\ last'.op \notin {"setCb", "removeCb"} => after = before ]_vars

\* C20 witness: with three callbacks armed on primaries, a set-callback call
\* on a primary was turned down and armed none
C20_Witness ==
    /\ InSession
    /\ last.op = "setCb"
    /\ IsPrimary(last.h)
    /\ last.ret = Null
    /\ ArmedOn(hooks, Primaries) >= 3

-----------------------------------------------------------------------------
(* End of the session protocol *)

\* C21: qfd_cleanup() takes effect only in Available, where it ends in
\* CleanedUp; called while a session is open, before a successful qfd_init()
\* or a second time it changes nothing; and no qfd_init, qfd_start,
\* qfd_finalize or qfd_cleanup call leaves CleanedUp.
C21_CleanupOnceAndTerminal ==
    [][ /\ last'.op = "cleanup" =>
             IF state = "Available"
             THEN state' = "CleanedUp"
             ELSE /\ state' = state
                  /\ UNCHANGED <<hooks, userData, mapCache, canon, builds>>
        /\ state' = "CleanedUp" =>
             \/ state = "CleanedUp"
             \/ state = "Available" /\ last'.op = "cleanup"
        /\ state = "CleanedUp" => state' = "CleanedUp" ]_vars

\* C21 witness: after a cleanup, qfd_init, qfd_start and the like were
\* called again and the last of them, a qfd_start, left QFD cleaned up
C21_Witness ==
    /\ state = "CleanedUp"
    /\ starts >= 1
    /\ last.op = "start"
    /\ \E h \in Handles : hooks[h] # EmptyBag

-----------------------------------------------------------------------------
(* Terminals and shape of the map expressions *)

RECURSIVE Terminals(_)
\* the qfdHandles at the leaves of a map expression
Terminals(e) ==
    IF e.opType \in {"QFD_SECMAP_VAR", "QFD_SECMAP_BITSEL", "QFD_SECMAP_PARTSEL"}
    THEN {e.handle}
    ELSE UNION {Terminals(Operands(e)[i]) : i \in 1..Len(Operands(e))}

\* the terminals of a returned map expression are primaries; with the alias
\* flag set they may be secondaries, other than the one queried
TerminalsAsFlagged(h, r) ==
    \A t \in Terminals(r.expr) :
      \/ IsPrimary(t)
      \/ r.alias = 1 /\ IsSecondary(t) /\ t # h

\* C22: every terminal handle of every map expression qfd_getMapExpr returns
\* is a primary, except that it may be a secondary when the handle queried is
\* an alias of another secondary (alias flag 1); an expression returned with
\* alias flag 0 has no secondary among its terminals.
C22_TerminalsArePrimaries ==
    /\ \A h \in Handles : got[h] # Null => TerminalsAsFlagged(h, got[h])
    /\ \A h \in Handles : mapCache[h] # Null => TerminalsAsFlagged(h, mapCache[h])
    /\ (last.op = "getMapExpr" /\ last.ret # Null) =>
         TerminalsAsFlagged(last.h, last.ret)

\* C22 witness: a1 got an expression over two primaries with flag 0, and a2,
\* with the same substitution record, got the terminal a1 with flag 1
C22_Witness ==
    /\ got["a1"] # Null /\ got["a1"].alias = 0
    /\ Cardinality(Terminals(got["a1"].expr)) = 2
    /\ \A t \in Terminals(got["a1"].expr) : IsPrimary(t)
    /\ got["a2"] # Null /\ got["a2"].alias = 1
    /\ Terminals(got["a2"].expr) = {"a1"}

RECURSIVE WellFormed(_)
\* the node has the fields and the number of operands of its kind, and so
\* has every node below it
WellFormed(e) ==
    /\ CASE e.opType = "QFD_SECMAP_VAR" ->
              DOMAIN e = {"opType", "handle"} /\ e.handle \in Handles
         [] e.opType = "QFD_SECMAP_BITSEL" ->
              /\ DOMAIN e = {"opType", "idx", "handle"}
              /\ e.handle \in Handles
              /\ e.idx \in Nat
         [] e.opType = "QFD_SECMAP_PARTSEL" ->
              /\ DOMAIN e = {"opType", "lsb", "msb", "handle"}
              /\ e.handle \in Handles
              /\ e.lsb \in Nat /\ e.msb \in Nat
         [] e.opType \in {"QFD_SECMAP_BITNEG", "QFD_SECMAP_BITBUF"} ->
              DOMAIN e = {"opType", "operand"} /\ Len(Operands(e)) = 1
         [] e.opType \in {"QFD_SECMAP_BITAND", "QFD_SECMAP_BITOR",
                          "QFD_SECMAP_BITXOR"} ->
              DOMAIN e = {"opType", "lhs", "rhs"} /\ Len(Operands(e)) = 2
         [] e.opType = "QFD_SECMAP_REPLICATE" ->
              DOMAIN e = {"opType", "num", "operand"} /\ e.num \in Nat
         [] e.opType = "QFD_SECMAP_TERNARY" ->
              /\ DOMAIN e = {"opType", "numOperands", "operands"}
              /\ e.numOperands = 3 /\ Len(e.operands) = 3
         [] e.opType = "QFD_SECMAP_CONCAT" ->
              /\ DOMAIN e = {"opType", "numOperands", "operands"}
              /\ e.numOperands = Len(e.operands)
         [] e.opType = "QFD_SECMAP_LITERAL" ->
              DOMAIN e = {"opType", "value"} /\ Operands(e) = << >>
         [] OTHER -> FALSE
    /\ \A i \in 1..Len(Operands(e)) : WellFormed(Operands(e)[i])

\* C23: every map expression qfd_getMapExpr returns is well-formed: the array
\* of each bit select and part select is a qfdHandle, never an expression,
\* each ternary node has exactly 3 operands, each infix node exactly 2, each
\* prefix node exactly 1, and a literal node has none.
C23_MapExprWellFormed ==
    /\ \A h \in Handles : got[h] # Null => WellFormed(got[h].expr)
    /\ \A h \in Handles : mapCache[h] # Null => WellFormed(mapCache[h].expr)
    /\ (last.op = "getMapExpr" /\ last.ret # Null) => WellFormed(last.ret.expr)

\* C23 witness: an infix node over a bit select and a ternary node over a
\* prefix node and a literal were returned
C23_Witness ==
    /\ got["a1"] # Null /\ got["a1"].expr.opType = "QFD_SECMAP_BITOR"
    /\ \E i \in 1..2 :
         Operands(got["a1"].expr)[i].opType = "QFD_SECMAP_BITSEL"
    /\ got["a2"] # Null /\ got["a2"].expr.opType = "QFD_SECMAP_TERNARY"
    /\ Operands(got["a2"].expr)[1].opType = "QFD_SECMAP_BITNEG"
    /\ Operands(got["a2"].expr)[3].opType = "QFD_SECMAP_LITERAL"

-----------------------------------------------------------------------------
(* A second set-callback call on a Verilog object *)

\* the call was a set-callback call on a Verilog object that holds a callback
Conflicting(call) ==
    /\ call.op \in SetCbOps
    /\ call.h \in Handles
    /\ ObjLang(call.h) = "Verilog"
    /\ hooks[call.h] # EmptyBag

\* C24: a set-callback call on a Verilog object that already has a fast
\* callback returns null and leaves the first callback, the userData of the
\* object and every other callback as they were; the next value change of
\* the object invokes the first callback alone, and the next qfd_removeCb
\* returns 1 and the one after it 0.
C24_RejectedSetCbKeepsFirst ==
    [][ /\ (last'.op \in SetCbOps /\ ObjLang(last'.h) = "Verilog"
              /\ hooks[last'.h] # EmptyBag) =>
             /\ last'.ret = Null
             /\ hooks' = hooks
             /\ userData' = userData
        /\ (Conflicting(last) /\ last.ret = Null
              /\ last'.h = last.h /\ ~AfterCleanup) =>
             /\ last'.op = "valueChange" =>
                  /\ last'.ret = CallsRet(hooks[last.h])
                  /\ BagCardinality(last'.ret.calls) = 1
             /\ last'.op = "removeCb" =>
                  (last'.ret = IntRet(1) /\ hooks'[last.h] = EmptyBag)
        /\ (last.op = "removeCb" /\ last.ret = IntRet(1)
              /\ ObjLang(last.h) = "Verilog"
              /\ last'.op = "removeCb" /\ last'.h = last.h) =>
             last'.ret = IntRet(0) ]_vars

\* C24 witness: inside a session a set-callback call with another callback
\* and userData was turned down on a Verilog primary that holds a callback
C24_Witness ==
    /\ InSession
    /\ Conflicting(last)
    /\ IsPrimary(last.h)
    /\ last.ret = Null
    /\ ~BagIn(last.arg, hooks[last.h])
    /\ userData[last.h] \in UserDatas
    /\ userData[last.h] # last.arg.ud

-----------------------------------------------------------------------------
(* Soundness of the alias flag *)

\* the secondaries with a map expression kept whose expression in terms of
\* primaries is structurally that of h
KeptLike(h) ==
    {g \in Handles : /\ IsSecondary(g)
                     /\ mapCache[g] # Null
                     /\ BuildExpr(ObjSubst(g)) = BuildExpr(ObjSubst(h))}

\* C25: before qfd_cleanup, qfd_getMapExpr has set the alias flag of a
\* secondary only if another secondary with a structurally identical map
\* expression was queried before it, and among the queried secondaries that
\* share a map expression exactly one, the first queried, has the flag 0.
C25_AliasSoundOneCanonical ==
    Initialized =>
      \A h \in Handles :
        mapCache[h] # Null =>
          /\ mapCache[h].alias = 1 =>
               \E g \in KeptLike(h) : g # h /\ Pos(g) < Pos(h)
          /\ Cardinality({g \in KeptLike(h) : mapCache[g].alias = 0}) = 1
          /\ \A g \in KeptLike(h) :
               mapCache[g].alias = 0 => \A k \in KeptLike(h) : Pos(g) <= Pos(k)

\* C25 witness: of two secondaries with the same substitution record a2 was
\* queried first and is the canonical one, a1 is its alias; before cleanup
C25_Witness ==
    /\ Initialized
    /\ subst["a1"] = subst["a2"]
    /\ mapCache["a1"] # Null /\ mapCache["a2"] # Null
    /\ Pos("a2") < Pos("a1")
    /\ mapCache["a2"].alias = 0
    /\ mapCache["a1"].alias = 1

-----------------------------------------------------------------------------
(* Calls between the sessions *)

\* C26 as stated: a qfd_setCbAndGetValPtr, qfd_setCbAndGetValPtrForSecondary
\* or qfd_getMapExpr call made after a successful qfd_init() and outside a
\* session changes neither the callbacks nor the user data nor the map
\* expressions and fingerprints kept.
C26_NoEffectOutsideSession ==
    [][ (state = "Available"
           /\ last'.op \in (SetCbOps \cup {"getMapExpr"})) =>
          UNCHANGED <<hooks, userData, mapCache, canon>> ]_vars

\* C26, amended: a set-callback call made after a successful qfd_init() and
\* outside a session returns null and changes neither the callbacks nor the
\* user data nor the map expressions kept, and a value change that follows
\* invokes only the callbacks set before; qfd_getMapExpr is not bound to the
\* session: outside a session too it returns the map expression of a
\* secondary and keeps it, and it changes no callback and no user data.
C26_SetCbNoEffectOutsideSession ==
    [][ /\ (state = "Available" /\ last'.op \in SetCbOps) =>
             /\ last'.ret = Null
             /\ UNCHANGED <<hooks, userData, mapCache, canon>>
        /\ (state = "Available" /\ last.op \in SetCbOps
              /\ last'.op = "valueChange" /\ last'.h = last.h) =>
             last'.ret = CallsRet(hooks[last.h])
        /\ (state = "Available" /\ last'.op = "getMapExpr") =>
             /\ UNCHANGED <<hooks, userData>>
             /\ IsSecondary(last'.h) =>
                  (last'.ret # Null /\ mapCache'[last'.h] = last'.ret)
             /\ ~IsSecondary(last'.h) =>
                  (last'.ret = Null /\ UNCHANGED <<mapCache, canon>>) ]_vars

\* C26 witness: between two sessions a set-callback call on a secondary of a
\* supported type without a callback, whose map expression is kept, returned
\* null
C26_Witness ==
    /\ state = "Available"
    /\ starts >= 1
    /\ last.op = "setCbSec"
    /\ IsSecondary(last.h)
    /\ ObjSupported(last.h)
    /\ last.ret = Null
    /\ hooks[last.h] = EmptyBag
    /\ mapCache[last.h] # Null

====
